---- MODULE Spec2Model ----
(* A model of ipymap.map.USMap: the per-ZIP GeoJSON cache (self.zipcodes), *)
(* the known-key set (self.zipcode_set), the progress widgets, the map     *)
(* layers and the iteration helpers iter_zipcodes / iter_zipcodes_no_check *)
(* with the operations built on them.                                      *)
EXTENDS Integers, Sequences, FiniteSets, TLC

\* ------------------------------------------------------------------ bounds
MaxLen == 2
MaxCalls == 2

\* ---------------------------------------------------------------- constants
\* ipywidgets.IntProgress() is built with its default maximum.
IntProgressDefaultMax == 100

\* ZIP codes are Python strings; a string is modelled as its sequence of
\* characters (digits), so that list.sort() orders them as str does.
zipcode_set == {<<1, 0>>, <<2>>}
Unknown == {<<9>>}
Keys == zipcode_set \cup Unknown

\* Python values are tagged records, so that any two of them compare.
None == [py |-> "None"]
Str(s) == [py |-> "str", v |-> s]
Absent == [py |-> "absent"]
area_style == "area_style"
NoStyle == "NoStyle"

\* A GeoJSON Feature as far as this program reads or writes it:
\* geometry.type, properties.style and properties.GEOID10.
Feature(k, t, s) == [py |-> "dict", geoid |-> k, gtype |-> t, style |-> s]

\* What json.loads (the response_processor) can hand back for key k.
Bodies(k) == {Feature(k, "Polygon", NoStyle), Feature(k, "MultiPolygon", NoStyle), None}

\* ------------------------------------------------------- pure helpers
\* str.__lt__: lexicographic comparison of two strings.
RECURSIVE StrLess(_, _)
StrLess(a, b) ==
  IF b = <<>> THEN FALSE
  ELSE IF a = <<>> THEN TRUE
  ELSE IF Head(a) # Head(b) THEN Head(a) < Head(b)
  ELSE StrLess(Tail(a), Tail(b))

\* Insert k in an ascending list (one step of list.sort()).
RECURSIVE SortedInsert(_, _)
SortedInsert(s, k) ==
  IF s = <<>> THEN <<k>>
  ELSE IF StrLess(k, Head(s)) THEN <<k>> \o s
  ELSE <<Head(s)>> \o SortedInsert(Tail(s), k)

\* list(S); .sort()
RECURSIVE SortedList(_)
SortedList(S) ==
  IF S = {} THEN <<>>
  ELSE LET k == CHOOSE x \in S : TRUE
       IN SortedInsert(SortedList(S \ {k}), k)

SeqRange(s) == {s[j] : j \in 1..Len(s)}

\* Mutant: the request is sorted but not intersected with the known keys.
available_zipcodes_unchecked(zs) == SortedList(SeqRange(zs))

\* iter_zipcodes, lines 181-183: set(zipcodes) & self.zipcode_set, sorted.
available_zipcodes(zs) == SortedList(SeqRange(zs) \cap zipcode_set)

\* A Python dict is an insertion-ordered sequence of <<key, value>> pairs
\* with unique keys; d[k] = v overwrites in place or appends.
DictKeys(d) == [j \in 1..Len(d) |-> d[j][1]]
DictValues(d) == [j \in 1..Len(d) |-> d[j][2]]
DictHas(d, k) == \E j \in 1..Len(d) : d[j][1] = k
DictSet(d, k, v) ==
  IF DictHas(d, k)
  THEN [j \in 1..Len(d) |-> IF d[j][1] = k THEN <<k, v>> ELSE d[j]]
  ELSE Append(d, <<k, v>>)

\* All input lists of at most MaxLen keys.
Inputs == UNION {[1..n -> Keys] : n \in 0..MaxLen}

\* ----------------------------------------------------------------- state
VARIABLES
  zipcodes,   \* self.zipcodes: the WebDict, key -> stored value or Absent
  requests,   \* network requests issued so far, per key
  firstGot,   \* the value the first successful get of a key returned
  map,        \* self.map: None, or the layers pushed to the leaflet Map
  progress,   \* progress_bar.value, progress_bar.max, progress_label.value
  pc,         \* "idle", or "iter" inside the dict comprehension
  op,         \* the current (or last) call and its arguments
  keys,       \* the list the comprehension iterates
  idx,        \* number of keys whose per_zipcode call has returned
  results,    \* the dict the comprehension is building
  invoked,    \* the keys per_zipcode was invoked with, in order
  returns,    \* what those invocations returned, in order
  fetched,    \* the keys self.zipcodes[...] was asked for in this call
  stdout,     \* the keys print('failed to add ...') named in this call
  layers0,    \* number of layers on the map when the call started
  status,     \* "none", "running", "returned" or "raised"
  retval,     \* what the call returned, or the error it raised
  ncalls

vars == <<zipcodes, requests, firstGot, map, progress, pc, op, keys, idx,
          results, invoked, returns, fetched, stdout, layers0, status, retval, ncalls>>

cacheVars == <<zipcodes, requests, firstGot>>
runVars == <<keys, idx, results, invoked, returns, fetched, stdout>>

\* ------------------------------------------------------------- the cache
\* An outcome of evaluating an expression that may touch the cache and the
\* map: the value or the exception, and the state it leaves.
\* got is the value a cache lookup handed back (Absent when none did).
Outcome(raised, ret, z, net, m, out, got) ==
  [raised |-> raised, ret |-> ret, zipcodes |-> z, net |-> net, map |-> m,
   out |-> out, got |-> got]

\* WebDict.__getitem__: a stored key is returned without a request; a miss
\* issues one request, and either fails (nothing stored, the error goes to
\* the caller) or stores the parsed body and returns it.
WebDict_getitem(z, m, k) ==
  IF z[k] # Absent
  THEN {Outcome(FALSE, z[k], z, 0, m, <<>>, z[k])}
  ELSE {Outcome(TRUE, Str("NetworkFailure"), z, 1, m, <<>>, Absent)}
       \cup {Outcome(FALSE, b, [z EXCEPT ![k] = b], 1, m, <<>>, b) :
               b \in IF k \in zipcode_set THEN Bodies(k) ELSE {}}

\* Mutant: the lookup drops the stored entry and asks the network again.
fetch_geojson_for_zipcode_refetch(z, m, k) ==
  WebDict_getitem([z EXCEPT ![k] = Absent], m, k)

\* USMap.fetch_geojson_for_zipcode
fetch_geojson_for_zipcode(z, m, k) == WebDict_getitem(z, m, k)

\* leaflet.GeoJSON(data=geojson, name=name) with its popup
GeoJSONLayer(data, name, popup) ==
  [kind |-> "GeoJSON", data |-> data, name |-> name, popup |-> popup]

\* USMap.add_geojson: self.map += g; self.map is None until display().
add_geojson(o, geojson, name, popup) ==
  IF o.map = None
  THEN [o EXCEPT !.raised = TRUE, !.ret = Str("TypeError")]
  ELSE [o EXCEPT !.map = [py |-> "Map",
                          layers |-> Append(o.map.layers, GeoJSONLayer(geojson, name, popup))]]

\* USMap.add_zipcode
add_zipcode(z, m, k) ==
  { IF g.raised THEN g
    ELSE IF g.ret = None
    THEN [g EXCEPT !.ret = Str("nope"), !.out = <<k>>]
    ELSE LET d == [g.ret EXCEPT !.style = area_style]
             styled == [g EXCEPT !.zipcodes = [g.zipcodes EXCEPT ![k] = d],
                                 !.ret = Str("ok")]
         IN add_geojson(styled, d, k, TRUE)
    : g \in fetch_geojson_for_zipcode(z, m, k) }

\* USMap.add_zipcode_as_dot with add_dot: self.map.add_layer(circle_marker);
\* the gazetteer row of a key of zipcode_set always exists.
add_zipcode_as_dot(z, m, k) ==
  IF k \notin zipcode_set
  THEN {Outcome(TRUE, Str("KeyError"), z, 0, m, <<>>, Absent)}
  ELSE IF m = None
  THEN {Outcome(TRUE, Str("AttributeError"), z, 0, m, <<>>, Absent)}
  ELSE {Outcome(FALSE, [py |-> "popup_value", geoid |-> k], z, 0,
                [py |-> "Map",
                 layers |-> Append(m.layers, [kind |-> "CircleMarker", name |-> k])],
                <<>>, Absent)}

\* A caller-supplied per_zipcode: returns something, returns None, or fails.
user_function(z, m, k) ==
  { Outcome(FALSE, Str("OK"), z, 0, m, <<>>, Absent),
    Outcome(FALSE, None, z, 0, m, <<>>, Absent),
    Outcome(TRUE, Str("UserError"), z, 0, m, <<>>, Absent) }

\* per_zipcode(z) for the functions the program passes to iter_zipcodes.
per_zipcode(fn, z, m, k) ==
  CASE fn = "user" -> user_function(z, m, k)
    [] fn = "fetch_geojson_for_zipcode" -> fetch_geojson_for_zipcode(z, m, k)
    [] fn = "lambda" -> WebDict_getitem(z, m, k)
    [] fn = "add_zipcode" -> add_zipcode(z, m, k)
    [] fn = "add_zipcode_as_dot" -> add_zipcode_as_dot(z, m, k)

\* The functions that look the key up in self.zipcodes.
Fetches(fn) == fn \in {"fetch_geojson_for_zipcode", "lambda", "add_zipcode"}

\* merge_geojsons, lines 94-98, on one cached Feature.
restyle(d, lines_only) ==
  [d EXCEPT !.style = area_style,
            !.gtype = IF lines_only /\ d.gtype = "Polygon" THEN "MultiLineString" ELSE @]

\* USMap.merge_geojsons over the documents of the keys ks, which are the
\* objects the cache holds: the loop fails on a None document, leaving the
\* earlier ones restyled.
RECURSIVE merge_geojsons(_, _, _)
merge_geojsons(z, ks, lines_only) ==
  IF ks = <<>> THEN [raised |-> FALSE, zipcodes |-> z]
  ELSE IF z[Head(ks)] = None THEN [raised |-> TRUE, zipcodes |-> z]
  ELSE merge_geojsons([z EXCEPT ![Head(ks)] = restyle(@, lines_only)], Tail(ks), lines_only)

FeatureCollection(z, ks) ==
  [py |-> "dict", type |-> "FeatureCollection", features |-> [j \in 1..Len(ks) |-> z[ks[j]]]]

\* Mutant: the documents are pushed to the map one layer each.
RECURSIVE add_each(_, _)
add_each(o, ks) ==
  IF ks = <<>> \/ o.raised THEN o
  ELSE add_each(add_geojson(o, o.zipcodes[Head(ks)], Head(ks), FALSE), Tail(ks))

add_geojsons_each(z, m, ks, lines_only) ==
  LET d == merge_geojsons(z, ks, lines_only)
  IN IF d.raised
     THEN Outcome(TRUE, Str("TypeError"), d.zipcodes, 0, m, <<>>, Absent)
     ELSE add_each(Outcome(FALSE, None, d.zipcodes, 0, m, <<>>, Absent), ks)

\* USMap.add_geojsons
add_geojsons(z, m, ks, lines_only) ==
  LET d == merge_geojsons(z, ks, lines_only)
  IN IF d.raised
     THEN Outcome(TRUE, Str("TypeError"), d.zipcodes, 0, m, <<>>, Absent)
     ELSE add_geojson(Outcome(FALSE, None, d.zipcodes, 0, m, <<>>, Absent),
                      FeatureCollection(d.zipcodes, ks),
                      [n |-> Len(ks), s |-> "geojsons"], FALSE)

supported_modes == {"area", "boundary", "dot"}
Modes == supported_modes \cup {"heat"}

Exception(e) == [py |-> "Exception", kind |-> e.v]
Dict(d) == [py |-> "dict", items |-> d]

\* ------------------------------------------------------------------ Init
Init ==
  /\ zipcodes = [k \in Keys |-> Absent]
  /\ requests = [k \in Keys |-> 0]
  /\ firstGot = [k \in Keys |-> Absent]
  /\ map = None
  /\ progress = [value |-> 0, max |-> IntProgressDefaultMax, label |-> <<>>]
  /\ pc = "idle"
  /\ op = [name |-> "none"]
  /\ keys = <<>>
  /\ idx = 0
  /\ results = <<>>
  /\ invoked = <<>>
  /\ returns = <<>>
  /\ fetched = <<>>
  /\ stdout = <<>>
  /\ layers0 = 0
  /\ status = "none"
  /\ retval = None
  /\ ncalls = 0

NumLayers == IF map = None THEN 0 ELSE Len(map.layers)

\* The cache after an outcome o of an expression that looked key k up.
Touch(o, k) ==
  /\ zipcodes' = o.zipcodes
  /\ requests' = [requests EXCEPT ![k] = @ + o.net]
  /\ firstGot' = IF o.got # Absent /\ firstGot[k] = Absent
                 THEN [firstGot EXCEPT ![k] = o.got] ELSE firstGot

\* --------------------------------------------------------------- actions
\* USMap.display: the Map is created on the first call only.
Display ==
  /\ pc = "idle"
  /\ map = None
  /\ map' = [py |-> "Map", layers |-> <<>>]
  /\ UNCHANGED <<cacheVars, runVars, progress, pc, op, layers0, status, retval, ncalls>>

\* A direct call of fetch_geojson_for_zipcode(k) or add_zipcode(k).
Direct(name, k) ==
  /\ pc = "idle"
  /\ ncalls < MaxCalls
  /\ \E o \in per_zipcode(name, zipcodes, map, k) :
       /\ Touch(o, k)
       /\ map' = o.map
       /\ stdout' = o.out
       /\ status' = IF o.raised THEN "raised" ELSE "returned"
       /\ retval' = IF o.raised THEN Exception(o.ret) ELSE o.ret
  /\ op' = [name |-> name, fn |-> name, input |-> <<k>>, show_progress |-> FALSE]
  /\ keys' = <<>>
  /\ idx' = 0
  /\ results' = <<>>
  /\ invoked' = <<>>
  /\ returns' = <<>>
  /\ fetched' = <<k>>
  /\ layers0' = NumLayers
  /\ ncalls' = ncalls + 1
  /\ UNCHANGED <<progress, pc>>

FetchGeojsonForZipcode == \E k \in Keys : Direct("fetch_geojson_for_zipcode", k)

AddZipcode == \E k \in Keys : Direct("add_zipcode", k)

\* Mutant: the bar's value is not reset when a run starts.
progressive_iter_begin_no_reset(n) ==
  [value |-> progress.value, max |-> n,
   label |-> IF n = 0 THEN <<>> ELSE progress.label]

\* progressive_iter up to its first yield, run by the comprehension's first
\* next(): the bar is reset, and an empty list ends the generator at once.
progressive_iter_begin(n) ==
  [value |-> 0, max |-> n, label |-> IF n = 0 THEN <<>> ELSE progress.label]

\* iter_zipcodes_no_check, line 159, up to the first per_zipcode call.
Begin(o, ks) ==
  /\ pc = "idle"
  /\ ncalls < MaxCalls
  /\ op' = o
  /\ keys' = ks
  /\ idx' = 0
  /\ results' = <<>>
  /\ invoked' = <<>>
  /\ returns' = <<>>
  /\ fetched' = <<>>
  /\ stdout' = <<>>
  /\ layers0' = NumLayers
  /\ status' = "running"
  /\ retval' = None
  /\ ncalls' = ncalls + 1
  /\ pc' = "iter"
  /\ progress' = IF o.show_progress THEN progressive_iter_begin(Len(ks)) ELSE progress
  /\ UNCHANGED <<cacheVars, map>>

Call(name, fn, zs, show) ==
  [name |-> name, fn |-> fn, input |-> zs, show_progress |-> show]

\* Mutant: the unchecked run sorts and deduplicates its input as well.
IterZipcodesNoCheck_sorted ==
  \E zs \in Inputs, show \in BOOLEAN :
    Begin(Call("iter_zipcodes_no_check", "user", zs, show), SortedList(SeqRange(zs)))

IterZipcodesNoCheck ==
  \E zs \in Inputs, show \in BOOLEAN :
    Begin(Call("iter_zipcodes_no_check", "user", zs, show), zs)

IterZipcodes ==
  \E zs \in Inputs, show \in BOOLEAN :
    Begin(Call("iter_zipcodes", "user", zs, show), available_zipcodes(zs))

MergeZipcodes ==
  \E zs \in Inputs, show \in BOOLEAN :
    Begin(Call("merge_zipcodes", "fetch_geojson_for_zipcode", zs, show),
          available_zipcodes(zs))

\* The RuntimeError of an unsupported configuration, lines 211 and 217.
ConfigError(mode, batch) ==
  IF mode \notin supported_modes
  THEN [py |-> "RuntimeError", msg |-> "is not supported. choose from",
        mode |-> mode, choose_from |-> supported_modes]
  ELSE [py |-> "RuntimeError", msg |-> "the combination of is not supported",
        mode |-> mode, batch |-> batch]

\* Mutant: the batch branch does not look at the mode, so ('dot', batch)
\* is fetched and rendered instead of being rejected.
Dispatch_batch_any_mode(mode, batch) ==
  IF mode \notin supported_modes THEN "raise"
  ELSE IF ~batch
  THEN (IF mode = "dot" THEN "add_zipcode_as_dot"
        ELSE IF mode = "area" THEN "add_zipcode" ELSE "raise")
  ELSE "lambda"

\* Mutant: the batch branch iterates with add_zipcode, which renders each
\* key as it is fetched.
Dispatch_batch_renders_each(mode, batch) ==
  IF mode \notin supported_modes THEN "raise"
  ELSE IF ~batch
  THEN (IF mode = "dot" THEN "add_zipcode_as_dot"
        ELSE IF mode = "area" THEN "add_zipcode" ELSE "raise")
  ELSE (IF mode \in {"area", "boundary"} THEN "add_zipcode" ELSE "raise")

\* add_zipcodes, lines 213-235: the per_zipcode it iterates with, or "raise".
Dispatch(mode, batch) ==
  IF mode \notin supported_modes THEN "raise"
  ELSE IF ~batch
  THEN (IF mode = "dot" THEN "add_zipcode_as_dot"
        ELSE IF mode = "area" THEN "add_zipcode" ELSE "raise")
  ELSE (IF mode \in {"area", "boundary"} THEN "lambda" ELSE "raise")

AddZipcodesCall(zs, mode, batch, show) ==
  [name |-> "add_zipcodes", fn |-> Dispatch(mode, batch), input |-> zs,
   show_progress |-> show, mode |-> mode, batch |-> batch]

AddZipcodes ==
  \E zs \in Inputs, mode \in Modes, batch \in BOOLEAN, show \in BOOLEAN :
    /\ Dispatch(mode, batch) # "raise"
    /\ Begin(AddZipcodesCall(zs, mode, batch, show), available_zipcodes(zs))

AddZipcodesUnsupported ==
  \E zs \in Inputs, mode \in Modes, batch \in BOOLEAN, show \in BOOLEAN :
    /\ Dispatch(mode, batch) = "raise"
    /\ pc = "idle"
    /\ ncalls < MaxCalls
    /\ op' = AddZipcodesCall(zs, mode, batch, show)
    /\ status' = "raised"
    /\ retval' = ConfigError(mode, batch)
    /\ keys' = <<>>
    /\ idx' = 0
    /\ results' = <<>>
    /\ invoked' = <<>>
    /\ returns' = <<>>
    /\ fetched' = <<>>
    /\ stdout' = <<>>
    /\ layers0' = NumLayers
    /\ ncalls' = ncalls + 1
    /\ UNCHANGED <<cacheVars, map, progress, pc>>

\* progressive_iter after a yield, lines 138-141: the label and the bar move
\* once the key's per_zipcode has returned; the last key ends the generator.
progressive_iter_resume(v, last) ==
  [progress EXCEPT !.value = @ + 1, !.label = IF last THEN <<>> ELSE v]

\* Mutant: the failure is swallowed and the mapping built so far returned.
StepRaise_partial(o, k) ==
  /\ pc' = "idle"
  /\ status' = "returned"
  /\ retval' = Dict(results)
  /\ UNCHANGED <<results, returns, idx, progress>>

\* per_zipcode(k) raised: the exception leaves the comprehension and the
\* call; no dict is returned.
StepRaise(o, k) ==
  /\ pc' = "idle"
  /\ status' = "raised"
  /\ retval' = Exception(o.ret)
  /\ UNCHANGED <<results, returns, idx, progress>>

\* per_zipcode(k) returned: the dict gets {k: value} and the generator is
\* resumed.
StepReturn(o, k) ==
  /\ results' = DictSet(results, k, o.ret)
  /\ returns' = Append(returns, o.ret)
  /\ idx' = idx + 1
  /\ progress' = IF op.show_progress
                 THEN progressive_iter_resume(k, idx + 1 = Len(keys))
                 ELSE progress
  /\ UNCHANGED <<pc, status, retval>>

\* One round of the dict comprehension of line 161.
Step ==
  /\ pc = "iter"
  /\ idx < Len(keys)
  /\ LET k == keys[idx + 1] IN
     \E o \in per_zipcode(op.fn, zipcodes, map, k) :
       /\ invoked' = Append(invoked, k)
       /\ fetched' = IF Fetches(op.fn) THEN Append(fetched, k) ELSE fetched
       /\ Touch(o, k)
       /\ map' = o.map
       /\ stdout' = stdout \o o.out
       /\ IF o.raised THEN StepRaise(o, k) ELSE StepReturn(o, k)
  /\ UNCHANGED <<op, keys, layers0, ncalls>>

\* The values of the result dict are the objects the cache holds.
Aliased(d, z) == [j \in 1..Len(d) |-> <<d[j][1], z[d[j][1]]>>]

\* The comprehension is done: the caller's code after iter_zipcodes.
Finish ==
  /\ pc = "iter"
  /\ idx = Len(keys)
  /\ pc' = "idle"
  /\ IF op.name = "merge_zipcodes"
     THEN LET d == merge_geojsons(zipcodes, DictKeys(results), FALSE) IN
          /\ zipcodes' = d.zipcodes
          /\ status' = IF d.raised THEN "raised" ELSE "returned"
          /\ retval' = IF d.raised THEN Exception(Str("TypeError"))
                       ELSE FeatureCollection(d.zipcodes, DictKeys(results))
          /\ results' = Aliased(results, d.zipcodes)
          /\ UNCHANGED map
     ELSE IF op.name = "add_zipcodes" /\ op.batch
     THEN LET o == add_geojsons(zipcodes, map, DictKeys(results), op.mode = "boundary") IN
          /\ zipcodes' = o.zipcodes
          /\ map' = o.map
          /\ status' = IF o.raised THEN "raised" ELSE "returned"
          /\ retval' = IF o.raised THEN Exception(o.ret)
                       ELSE Dict(Aliased(results, o.zipcodes))
          /\ results' = Aliased(results, o.zipcodes)
     ELSE /\ status' = "returned"
          /\ retval' = Dict(results)
          /\ UNCHANGED <<zipcodes, map, results>>
  /\ UNCHANGED <<requests, firstGot, progress, op, keys, idx, invoked, returns,
                 fetched, stdout, layers0, ncalls>>

Next ==
  \/ Display
  \/ FetchGeojsonForZipcode
  \/ AddZipcode
  \/ IterZipcodesNoCheck
  \/ IterZipcodes
  \/ MergeZipcodes
  \/ AddZipcodes
  \/ AddZipcodesUnsupported
  \/ Step
  \/ Finish

Spec == Init /\ [][Next]_vars

\* The iteration helpers alone, driven with caller-supplied functions.
NextRun ==
  \/ IterZipcodesNoCheck
  \/ IterZipcodes
  \/ Step
  \/ Finish

SpecRun == Init /\ [][NextRun]_vars

\* ================================================================ claims
Requested(zs) == SeqRange(zs) \cap zipcode_set
Ascending(s) == \A i, j \in 1..Len(s) : i < j => StrLess(s[i], s[j])
IsPrefix(a, b) == Len(a) <= Len(b) /\ a = SubSeq(b, 1, Len(a))
IsRun == op.name \in {"iter_zipcodes", "iter_zipcodes_no_check", "merge_zipcodes",
                      "add_zipcodes"} /\ op.fn # "raise"
IsAddZipcodes == op.name = "add_zipcodes" /\ op.fn # "raise"
OneByOneArea == op.name = "add_zipcodes" /\ op.mode = "area" /\ ~op.batch
Batch == op.name = "add_zipcodes" /\ op.batch /\ op.mode \in {"area", "boundary"}
\* The names of the layers the map got since the call started.
Rendered == [j \in 1..(NumLayers - layers0) |-> map.layers[layers0 + j].name]
FetchFailed == status = "raised" /\ retval.py = "Exception" /\ retval.kind = "NetworkFailure"

\* C1: once a key is stored in the cache it stays stored and no later
\* operation issues another network request for it; a direct lookup of a
\* stored key returns the stored entry.
C1_OneFetchPerKey ==
  [][ /\ \A k \in Keys : zipcodes[k] # Absent =>
             /\ zipcodes'[k] # Absent
             /\ requests'[k] = requests[k]
      /\ \A k \in Keys :
           (/\ ncalls' = ncalls + 1
            /\ op'.name = "fetch_geojson_for_zipcode"
            /\ op'.input = <<k>>
            /\ zipcodes[k] # Absent)
           => (status' = "returned" /\ retval' = zipcodes[k]) ]_vars

\* A direct lookup returned a document that an earlier operation had
\* styled, and the key has been requested from the network exactly once.
C1_Witness ==
  /\ op.name = "fetch_geojson_for_zipcode"
  /\ status = "returned"
  /\ ncalls = 2
  /\ retval # None
  /\ retval.style = area_style
  /\ requests[op.input[1]] = 1

\* C2: the value the cache holds for a key equals the value its first get
\* returned (geometry type and properties included).
C2_CachedImmutable ==
  \A k \in Keys : firstGot[k] # Absent => zipcodes[k] = firstGot[k]

\* C3: the mapping iter_zipcodes returns has exactly the requested known
\* keys, each once, in ascending order, each with what the function
\* returned for it (None included); an unknown key never appears and an
\* entirely unknown request yields the empty mapping without an error.
C3_ValidatedKeys ==
  op.name = "iter_zipcodes" =>
    /\ \A j \in 1..Len(results) : results[j][1] \in zipcode_set
    /\ Requested(op.input) = {} => (status # "raised" /\ results = <<>>)
    /\ status = "returned" =>
         /\ retval = Dict(results)
         /\ Ascending(DictKeys(results))
         /\ SeqRange(DictKeys(results)) = Requested(op.input)
         /\ DictKeys(results) = invoked
         /\ DictValues(results) = returns

\* iter_zipcodes returned for a request in descending order, and the first
\* key of the result holds None.
C3_Witness ==
  /\ op.name = "iter_zipcodes"
  /\ status = "returned"
  /\ op.input = << <<2>>, <<1, 0>> >>
  /\ results[1] = << <<1, 0>>, None >>

\* An entirely unknown request returned the empty mapping.
C3_WitnessUnknown ==
  /\ op.name = "iter_zipcodes"
  /\ status = "returned"
  /\ op.input = << <<9>> >>
  /\ retval = Dict(<<>>)

\* The input list without its repeated occurrences, first occurrences kept.
RECURSIVE Dedup(_)
Dedup(s) ==
  IF s = <<>> THEN <<>>
  ELSE LET r == Dedup(SubSeq(s, 1, Len(s) - 1))
       IN IF s[Len(s)] \in SeqRange(r) THEN r ELSE Append(r, s[Len(s)])

\* What the last invocation of per_zipcode with key k returned.
LastReturn(k) ==
  returns[CHOOSE j \in 1..Len(returns) :
            invoked[j] = k /\ \A i \in (j + 1)..Len(returns) : invoked[i] # k]

\* C4 (as stated): the mapping iter_zipcodes_no_check returns has exactly
\* one entry per element of the input list, in input order, with no
\* deduplication, each holding the function's return value.
C4_OneEntryPerInputKey ==
  (op.name = "iter_zipcodes_no_check" /\ status = "returned") =>
    /\ DictKeys(results) = op.input
    /\ DictValues(results) = returns

\* C4 (amended): per_zipcode is invoked once per element of the input list,
\* in input order, unknown and repeated keys included; the mapping returned
\* has one entry per distinct input key, in order of first occurrence,
\* holding what the last invocation for that key returned.
C4_OneEntryPerDistinctKey ==
  (op.name = "iter_zipcodes_no_check" /\ status = "returned") =>
    /\ retval = Dict(results)
    /\ invoked = op.input
    /\ Len(returns) = Len(op.input)
    /\ DictKeys(results) = Dedup(op.input)
    /\ \A j \in 1..Len(results) : results[j][2] = LastReturn(results[j][1])

\* iter_zipcodes_no_check returned for a list naming one unknown key twice,
\* whose two invocations returned different values.
C4_Witness ==
  /\ op.name = "iter_zipcodes_no_check"
  /\ status = "returned"
  /\ op.input = << <<9>>, <<9>> >>
  /\ returns = <<Str("OK"), None>>
  /\ results = << << <<9>>, None >> >>

UnsupportedConfig(mode, batch) ==
  \/ mode \notin {"area", "boundary", "dot"}
  \/ mode = "boundary" /\ ~batch
  \/ mode = "dot" /\ batch

\* The step is a call of add_zipcodes with an unsupported configuration.
UnsupportedCallStep ==
  /\ ncalls' = ncalls + 1
  /\ op'.name = "add_zipcodes"
  /\ UnsupportedConfig(op'.mode, op'.batch)

\* The failed call left the cache, the map and the progress widgets alone
\* and invoked nothing.
NothingDone ==
  /\ status' = "raised"
  /\ pc' = "idle"
  /\ retval'.py = "RuntimeError"
  /\ UNCHANGED <<zipcodes, requests, map, progress>>
  /\ invoked' = <<>>
  /\ fetched' = <<>>
  /\ stdout' = <<>>

\* C5 (as stated): add_zipcodes with an unsupported configuration fails
\* with an error naming the (mode, batch) combination before any fetch,
\* per-key invocation, progress update or render call.
C5_FailFastNamingCombination ==
  [][UnsupportedCallStep =>
       /\ NothingDone
       /\ "batch" \in DOMAIN retval'
       /\ retval'.mode = op'.mode
       /\ retval'.batch = op'.batch]_vars

\* C5 (amended): the same, except that for a mode outside the supported
\* ones the error names the mode and the supported modes, not the batch
\* flag.
C5_FailFast ==
  [][UnsupportedCallStep =>
       /\ NothingDone
       /\ retval'.mode = op'.mode
       /\ IF op'.mode \in {"area", "boundary", "dot"}
          THEN retval'.batch = op'.batch
          ELSE retval'.choose_from = {"area", "boundary", "dot"}]_vars

\* A call with mode 'dot' and batch=True failed on a map that has layers
\* and a cache that has entries.
C5_Witness ==
  /\ op.name = "add_zipcodes"
  /\ status = "raised"
  /\ retval.py = "RuntimeError"
  /\ op.mode = "dot"
  /\ op.batch
  /\ op.show_progress
  /\ op.input # <<>>
  /\ NumLayers > 0

\* The invocations so far are the first keys of the run, in order; one
\* more invocation than returns means the last one failed and ended the
\* call with its exception.
C6_Sequential ==
  IsRun =>
    /\ IsPrefix(invoked, keys)
    /\ Len(returns) = idx
    /\ Len(invoked) \in {idx, idx + 1}
    /\ Len(invoked) = idx + 1 => (status = "raised" /\ pc = "idle")
    /\ status = "raised" => retval.py = "Exception"

\* C6: a run invokes per_zipcode on the keys in sequence order; when an
\* invocation fails the call ends with that failure, returns no mapping,
\* and per_zipcode is not invoked again for that call.
C6_FailFast ==
  /\ []C6_Sequential
  /\ [][(status = "raised" /\ ncalls' = ncalls) =>
          UNCHANGED <<invoked, returns, results, status, retval, cacheVars>>]_vars

\* The function failed on the first of two keys; the second was never
\* passed to it.
C6_Witness ==
  /\ op.name = "iter_zipcodes"
  /\ status = "raised"
  /\ retval.kind = "UserError"
  /\ Len(keys) = 2
  /\ invoked = <<keys[1]>>

\* C7: in a one-by-one 'area' call on a displayed map, a key whose fetch
\* fails is printed and gets 'nope' and no layer, and the call goes on: it
\* returns a mapping with every validated key.
C7_SkipAndContinue ==
  (OneByOneArea /\ map # None) =>
    /\ ~FetchFailed
    /\ status = "returned" =>
         /\ DictKeys(results) = keys
         /\ stdout = SelectSeq(keys, LAMBDA k : zipcodes[k] = None)
         /\ Rendered = SelectSeq(keys, LAMBDA k : zipcodes[k] # None)

\* C8: a batch call that returns has pushed exactly one layer, the
\* FeatureCollection of the cached documents of the validated keys in
\* ascending order; batch and one-by-one 'area' calls validate, fetch and
\* return the same keys, the requested known keys in ascending order.
C8_BatchOneRender ==
  (IsAddZipcodes /\ op.mode \in {"area", "boundary"} /\ status = "returned") =>
    /\ Ascending(DictKeys(results))
    /\ SeqRange(DictKeys(results)) = Requested(op.input)
    /\ fetched = DictKeys(results)
    /\ retval = Dict(results)
    /\ op.batch =>
         /\ NumLayers = layers0 + 1
         /\ map.layers[NumLayers].kind = "GeoJSON"
         /\ map.layers[NumLayers].name = [n |-> Len(keys), s |-> "geojsons"]
         /\ map.layers[NumLayers].data =
              [py |-> "dict", type |-> "FeatureCollection",
               features |-> [j \in 1..Len(results) |-> zipcodes[results[j][1]]]]
         /\ DictValues(results) = map.layers[NumLayers].data.features

\* A 'boundary' batch call returned for two keys requested in descending
\* order, on a map that already had a layer.
C8_Witness ==
  /\ Batch
  /\ status = "returned"
  /\ op.mode = "boundary"
  /\ op.input = << <<2>>, <<1, 0>> >>
  /\ layers0 = 1
  /\ NumLayers = 2
  /\ Len(map.layers[2].data.features) = 2

\* C9: in a run with show_progress the bar's maximum is the number of keys
\* of this run and its value the number of keys whose per_zipcode has
\* returned; the label names the last such key, and is the final label
\* once the keys are exhausted.
C9_Progress ==
  (IsRun /\ op.show_progress) =>
    /\ progress.max = Len(keys)
    /\ progress.value = Len(returns)
    /\ progress.value <= progress.max
    /\ (0 < idx /\ idx < Len(keys)) => progress.label = keys[idx]
    /\ idx = Len(keys) => (progress.value = progress.max /\ progress.label = <<>>)

\* A second call, with show_progress, ran through two keys.
C9_Witness ==
  /\ IsRun
  /\ op.show_progress
  /\ ncalls = 2
  /\ status = "returned"
  /\ Len(keys) = 2
  /\ progress.value = 2
  /\ progress.max = 2

\* C10 (as stated): a batch call renders nothing before every fetch has
\* returned and nothing at all when a fetch fails; a one-by-one call whose
\* fetch fails has rendered every key that precedes the failing one.
C10_RenderEveryPrecedingKey ==
  /\ (Batch /\ (pc = "iter" \/ FetchFailed)) => NumLayers = layers0
  /\ (OneByOneArea /\ FetchFailed) => Rendered = SubSeq(keys, 1, idx)

\* C10 (amended): ... has rendered every key that precedes the failing one
\* and whose document is not None (a key whose document is None got 'nope'
\* and no layer).
C10_RenderAfterAllFetches ==
  /\ (Batch /\ (pc = "iter" \/ FetchFailed)) => NumLayers = layers0
  /\ (OneByOneArea /\ FetchFailed) =>
       Rendered = SelectSeq(SubSeq(keys, 1, idx), LAMBDA k : zipcodes[k] # None)

\* A batch call failed on the fetch of its second key.
C10_WitnessBatch ==
  /\ Batch
  /\ FetchFailed
  /\ map # None
  /\ Len(invoked) = 2
  /\ zipcodes[keys[1]] # None

\* A one-by-one call failed on the fetch of its second key, the first
\* being on the map.
C10_Witness ==
  /\ OneByOneArea
  /\ FetchFailed
  /\ Len(invoked) = 2
  /\ Rendered = <<keys[1]>>

====
